---- MODULE Spec2Model ----
(***************************************************************************)
(* A model of maximovd/blockchain-example: the Blockchain class of         *)
(* blockchain.py (chain, pending transactions, peer set, proof of work,    *)
(* chain validation, conflict resolution) and the Flask handlers of        *)
(* server.py that drive it.                                                *)
(*                                                                         *)
(* Abstractions, stated once:                                              *)
(*  - hashlib.sha256(x).hexdigest() is an ideal digest: the value          *)
(*    <<"sha256", x>>, equal for equal input and different for different   *)
(*    input (no collisions, no fixed points).                              *)
(*  - the leading hex characters of the digest of a proof guess are given  *)
(*    by a small mixing function (LeadingHex), and the difficulty of the   *)
(*    proof of work is scaled from 4 leading zeros to Difficulty, so that  *)
(*    the linear search of proof_of_work ends within MaxNonce steps.       *)
(*  - Python values that may have several types (previous_hash is the int  *)
(*    1 in the genesis block, a hex string elsewhere, None when omitted)   *)
(*    are tagged pairs <<type, value>>.                                    *)
(***************************************************************************)
EXTENDS Integers, Sequences, FiniteSets, TLC

VARIABLES
    chain,                  \* Blockchain.chain: the list of blocks
    current_transactions,   \* Blockchain.current_transactions: the pending pool
    nodes,                  \* Blockchain.nodes: the set of registered netlocs
    net,                    \* what each peer host answers to GET /chain now
    last,                   \* the last call made: its name, inputs and result
    frame,                  \* the threaded server: each request thread's handler,
                            \* position and local variables
    heap                    \* the threaded server: which list objects the pool
                            \* and the blocks' 'transactions' are

vars == <<chain, current_transactions, nodes, net, last, frame, heap>>

(***************************************************************************)
(* Bounds of the model.                                                    *)
(***************************************************************************)
MaxChain == 3
MaxPool == 2
MaxPosted == 1
MaxNonce == 64
MaxLastProof == 100
MaxPeerChain == 4

(***************************************************************************)
(* Python values.                                                          *)
(***************************************************************************)
None == <<"None", 0>>
PyInt(n) == <<"int", n>>
PyStr(s) == <<"str", s>>

\* a == b between Python values of possibly different types
PyEq(a, b) == a[1] = b[1] /\ a[2] = b[2]

\* bool(v) is False: None, 0 and the empty string
Falsy(v) ==
    \/ v[1] = "None"
    \/ v[1] = "int" /\ v[2] = 0
    \/ v[1] = "str" /\ v[2] = ""

Last(s) == s[Len(s)]

(***************************************************************************)
(* Blockchain.hash: json.dumps(block, sort_keys=True) and its digest.      *)
(***************************************************************************)
\* a transaction with its keys sorted: amount, recipient, sender
tx_dumps(tx) == <<tx.amount, tx.recipient, tx.sender>>

\* a block with its keys sorted: index, previous_hash, proof, timestamp,
\* transactions
json_dumps(block) ==
    << block.index,
       block.previous_hash,
       block.proof,
       block.timestamp,
       [i \in 1..Len(block.transactions) |-> tx_dumps(block.transactions[i])] >>

sha256(x) == <<"sha256", x>>

hash(block) == sha256(json_dumps(block))

(***************************************************************************)
(* Blockchain.valid_proof and Blockchain.proof_of_work.                    *)
(***************************************************************************)
Difficulty == 1

RECURSIVE str(_)
\* str(n) for n >= 0: the decimal digits of n
str(n) == IF n < 10 THEN <<n>> ELSE Append(str(n \div 10), n % 10)

RECURSIVE Numeral(_, _)
\* the digit string s read after a leading 1, so that "05" and "5" differ
Numeral(s, acc) ==
    IF s = <<>> THEN acc ELSE Numeral(Tail(s), acc * 10 + Head(s))

\* the first two hex characters of sha256(guess).hexdigest(), as a number
LeadingHex(guess) ==
    LET g == Numeral(guess, 1)
    IN  ((g % 199) * (g % 211) + (g % 7) * 29) % 256

RECURSIVE Pow16(_)
Pow16(k) == IF k = 0 THEN 1 ELSE 16 * Pow16(k - 1)

\* guess = f'{last_proof}{proof}'; guess_hash[:Difficulty] is all zeros
valid_proof(last_proof, proof) ==
    LeadingHex(str(last_proof) \o str(proof)) \div Pow16(2 - Difficulty) = 0

\* the result of a search that does not end within the bound
Diverges == -1

RECURSIVE pow_loop(_, _)
\* while self.valid_proof(last_proof, proof) is False: proof += 1
pow_loop(last_proof, proof) ==
    IF valid_proof(last_proof, proof) THEN proof
    ELSE IF proof >= MaxNonce THEN Diverges
    ELSE pow_loop(last_proof, proof + 1)

\* proof_of_work with the search started at 1
proof_of_work_from_one(last_proof) == pow_loop(last_proof, 1)

proof_of_work(last_proof) == pow_loop(last_proof, 0)

(***************************************************************************)
(* Blockchain.valid_chain.  The result is the Python value returned:       *)
(* "True", "False", "None" (the function falls off its end) or the name    *)
(* of the exception raised.                                                *)
(***************************************************************************)
\* valid_chain comparing previous_hash with the hash of the block before
valid_chain_hashes_last_block(c) ==
    IF Len(c) = 0 THEN "IndexError"
    ELSE
        LET last_block == c[1]
            current_index == 1
        IN  IF ~(current_index < Len(c)) THEN "None"
            ELSE
                LET block == c[current_index + 1]
                IN  IF ~PyEq(block.previous_hash, hash(last_block)) THEN "False"
                    ELSE IF ~valid_proof(last_block.proof, block.proof)
                         THEN "False"
                    ELSE "True"

valid_chain(c) ==
    IF Len(c) = 0 THEN "IndexError"                \* chain[0]
    ELSE
        LET last_block == c[1]
            current_index == 1
        IN  IF ~(current_index < Len(c)) THEN "None"   \* the loop never runs
            ELSE
                LET block == c[current_index + 1]
                IN  IF ~PyEq(block.previous_hash, hash(block)) THEN "False"
                    ELSE IF ~valid_proof(last_block.proof, block.proof)
                         THEN "False"
                    ELSE "True"                    \* return inside the loop

(***************************************************************************)
(* Blockchain.new_block, Blockchain.new_transaction, Blockchain.__init__.  *)
(* Each operator gives the fields the call assigns and the value it        *)
(* returns.                                                                *)
(***************************************************************************)
\* new_block putting the block in front of the chain
new_block_inserts_first(ch, pool, proof, previous_hash, ts) ==
    LET block == [ index         |-> Len(ch) + 1,
                   timestamp     |-> ts,
                   transactions  |-> pool,
                   proof         |-> proof,
                   previous_hash |-> IF Falsy(previous_hash)
                                     THEN hash(Last(ch))
                                     ELSE previous_hash ]
    IN  [ chain                |-> <<block>> \o ch,
          current_transactions |-> <<>>,
          ret                  |-> block ]

\* new_block without the reset of the pool
new_block_keeps_pool(ch, pool, proof, previous_hash, ts) ==
    LET block == [ index         |-> Len(ch) + 1,
                   timestamp     |-> ts,
                   transactions  |-> pool,
                   proof         |-> proof,
                   previous_hash |-> IF Falsy(previous_hash)
                                     THEN hash(Last(ch))
                                     ELSE previous_hash ]
    IN  [ chain                |-> Append(ch, block),
          current_transactions |-> pool,
          ret                  |-> block ]

\* ts is the value time() returns
new_block(ch, pool, proof, previous_hash, ts) ==
    LET block == [ index         |-> Len(ch) + 1,
                   timestamp     |-> ts,
                   transactions  |-> pool,
                   proof         |-> proof,
                   previous_hash |-> IF Falsy(previous_hash)
                                     THEN hash(Last(ch))
                                     ELSE previous_hash ]
    IN  [ chain                |-> Append(ch, block),
          current_transactions |-> <<>>,
          ret                  |-> block ]

\* new_transaction returning the index of the tip
new_transaction_returns_tip_index(ch, pool, sender, recipient, amount) ==
    [ current_transactions |->
          Append(pool, [sender |-> sender, recipient |-> recipient,
                        amount |-> amount]),
      ret |-> Last(ch).index ]

new_transaction(ch, pool, sender, recipient, amount) ==
    [ current_transactions |->
          Append(pool, [sender |-> sender, recipient |-> recipient,
                        amount |-> amount]),
      ret |-> Last(ch).index + 1 ]

\* Blockchain(): empty lists, then new_block(previous_hash=1, proof=100)
GenesisProof == 100
GenesisPreviousHash == 1

Blockchain(ts) == new_block(<<>>, <<>>, GenesisProof, PyInt(GenesisPreviousHash), ts)

(***************************************************************************)
(* Blockchain.register_node: urlparse(address).netloc.  An address is its  *)
(* scheme, whether "//" follows it, the host:port and the path; without    *)
(* "//" urlparse finds no netloc.                                          *)
(***************************************************************************)
netloc(address) == IF address.slashes THEN address.hostport ELSE ""

register_node(ns, address) == ns \cup {netloc(address)}

(***************************************************************************)
(* server.py: mine().                                                      *)
(***************************************************************************)
node_identifier == "node"

mine(ch, pool, ts) ==
    LET last_block == Last(ch)
        last_proof == last_block.proof
        proof == proof_of_work(last_proof)
        t == new_transaction(ch, pool, "0", node_identifier, 1)
        previous_hash == hash(last_block)
    IN  new_block(ch, t.current_transactions, proof, previous_hash, ts)

(***************************************************************************)
(* The peers.  A response to GET /chain is: whether requests.get returned  *)
(* at all, the status code, whether the JSON body has 'length' and         *)
(* 'chain', and these two.                                                 *)
(***************************************************************************)
HTTP_OK == 200

Unreachable ==
    [reachable |-> FALSE, status |-> 0, wellformed |-> FALSE,
     length |-> 0, chain |-> <<>>]
HttpError ==
    [reachable |-> TRUE, status |-> 500, wellformed |-> FALSE,
     length |-> 0, chain |-> <<>>]
Malformed ==
    [reachable |-> TRUE, status |-> HTTP_OK, wellformed |-> FALSE,
     length |-> 0, chain |-> <<>>]
Answer(c, n) ==
    [reachable |-> TRUE, status |-> HTTP_OK, wellformed |-> TRUE,
     length |-> n, chain |-> c]

\* server.py full_chain(): what this node answers
full_chain(ch) == Answer(ch, Len(ch))

Hosts == {"p1", "p2"}

\* requests.get(f'https://{node}/chain'): a netloc that is no host (the
\* empty netloc) cannot be fetched
Fetch(nt, node) == IF node \in Hosts THEN nt[node] ELSE Unreachable

(***************************************************************************)
(* Blockchain.resolve_conflicts.  order is the order in which the for      *)
(* loop visits the set self.nodes.  new_chain is <<>> for None and <<c>>   *)
(* for the list c.                                                         *)
(***************************************************************************)
RECURSIVE resolve_loop(_, _, _, _, _)
resolve_loop(nt, order, i, max_length, new_chain) ==
    IF i > Len(order) THEN [exc |-> "", new_chain |-> new_chain]
    ELSE
        LET response == Fetch(nt, order[i])
        IN  IF ~response.reachable
            THEN [exc |-> "RequestException", new_chain |-> new_chain]
            ELSE IF response.status # HTTP_OK
            THEN resolve_loop(nt, order, i + 1, max_length, new_chain)
            ELSE IF ~response.wellformed
            THEN [exc |-> "KeyError", new_chain |-> new_chain]
            ELSE
                LET length == response.length
                    c == response.chain
                IN  IF ~(length > max_length)
                    THEN resolve_loop(nt, order, i + 1, max_length, new_chain)
                    ELSE IF valid_chain(c) = "IndexError"
                    THEN [exc |-> "IndexError", new_chain |-> new_chain]
                    ELSE IF valid_chain(c) = "True"
                    THEN resolve_loop(nt, order, i + 1, length, <<c>>)
                    ELSE resolve_loop(nt, order, i + 1, max_length, new_chain)

\* resolve_conflicts installing the first chain reported as longer, as it is
resolve_conflicts_trusts_report(ch, nt, order) ==
    LET longer == {i \in 1..Len(order) :
                      /\ Fetch(nt, order[i]).wellformed
                      /\ Fetch(nt, order[i]).length > Len(ch)}
    IN  IF longer = {} THEN [chain |-> ch, ret |-> "False"]
        ELSE [chain |-> Fetch(nt, order[CHOOSE i \in longer :
                                           \A j \in longer : i <= j]).chain,
              ret |-> "True"]

resolve_conflicts(ch, nt, order) ==
    LET r == resolve_loop(nt, order, 1, Len(ch), <<>>)
    IN  IF r.exc # "" THEN [chain |-> ch, ret |-> r.exc]
        ELSE IF Len(r.new_chain) = 1 /\ Len(r.new_chain[1]) > 0   \* if new_chain:
        THEN [chain |-> r.new_chain[1], ret |-> "True"]
        ELSE [chain |-> ch, ret |-> "False"]

\* the orders in which a for loop may visit the set S
Orders(S) ==
    {o \in [1..Cardinality(S) -> S] : \A i, j \in DOMAIN o : i # j => o[i] # o[j]}

(***************************************************************************)
(* The inputs of the model.                                                *)
(***************************************************************************)
Transactions ==
    { [sender |-> "a", recipient |-> "b", amount |-> 1],
      [sender |-> "b", recipient |-> "a", amount |-> 2] }

\* time(): a clock that has advanced by one at every block of the chain
time(ch) == Len(ch)

\* 'http://p1/' and 'http:p1/' for every host
Addresses ==
    [scheme : {"http"}, slashes : BOOLEAN, hostport : Hosts, path : {"/"}]

NetLocs == {netloc(a) : a \in Addresses}

\* the arguments a direct caller passes to new_block
ProofArgs(ch) == {0, proof_of_work(Last(ch).proof)}
PreviousHashArgs == {None, PyInt(0), PyStr(""), PyStr("ab")}

RECURSIVE HonestChain(_)
\* the chain of a node that has mined n - 1 blocks
HonestChain(n) ==
    IF n = 0 THEN <<>>
    ELSE IF n = 1 THEN Blockchain(time(<<>>)).chain
    ELSE mine(HonestChain(n - 1), <<>>, time(HonestChain(n - 1))).chain

Fields == {"proof", "previous_hash", "transactions"}

\* c with one field of its block i changed to a different value
Tamper(c, i, f) ==
    CASE f = "proof" -> [c EXCEPT ![i].proof = @ + 1]
      [] f = "previous_hash" ->
             [c EXCEPT ![i].previous_hash =
                 IF PyEq(@, PyStr("ab")) THEN PyStr("cd") ELSE PyStr("ab")]
      [] f = "transactions" ->
             [c EXCEPT ![i].transactions =
                 Append(@, [sender |-> "a", recipient |-> "b", amount |-> 1])]

TamperedChains(n) == {Tamper(HonestChain(n), i, f) : i \in 1..n, f \in Fields}

\* the chains a caller may hand to valid_chain
ChainInputs ==
    {HonestChain(n) : n \in 0..MaxPeerChain}
        \cup UNION {TamperedChains(n) : n \in 2..MaxPeerChain}

\* the chains a peer may report, each with its true length or a false one
PeerChains ==
    {HonestChain(n) : n \in 0..MaxPeerChain} \cup TamperedChains(MaxChain)

Responses ==
    {Unreachable, HttpError, Malformed}
        \cup {Answer(c, Len(c)) : c \in PeerChains}
        \cup {Answer(c, MaxPeerChain + 1) : c \in PeerChains}

\* the answers of peers that run this program, and the failures
HonestResponses ==
    {Unreachable, HttpError, Malformed}
        \cup {full_chain(HonestChain(n)) : n \in {MaxChain - 1, MaxPeerChain}}

\* c with the index of its last block off by one
Misnumbered(c) == [c EXCEPT ![Len(c)].index = @ + 1]

\* the answers of a peer that runs any program at all
ForgedResponses ==
    Responses
        \cup {Answer(Misnumbered(HonestChain(n)), n) : n \in {MaxChain - 1, MaxPeerChain}}

\* one answer of each kind: no answer, the empty chain under a great
\* length, the chain of a node that mined ahead, a chain with a block
\* changed, a chain with an index off
SampleResponses ==
    { Unreachable,
      Answer(<<>>, MaxPeerChain + 1),
      full_chain(HonestChain(MaxPeerChain)),
      Answer(Tamper(HonestChain(MaxChain), MaxChain, "transactions"), MaxChain),
      Answer(Misnumbered(HonestChain(MaxChain - 1)), MaxPeerChain + 1) }

(***************************************************************************)
(* The threaded server (app.run serves each request in a thread of its     *)
(* own, and nothing in blockchain.py or server.py takes a lock).  A frame  *)
(* is the handler a thread runs, the statement it is at and its local      *)
(* variables; a local that holds no value yet is <<>>, one that holds v is *)
(* <<v>>.  Lists are objects: heap gives the identity of the list bound to *)
(* self.current_transactions and of the 'transactions' list of every block *)
(* of self.chain, so that an append to a list shows in every place that    *)
(* holds that list.  One request at a time needs neither: the sequential   *)
(* specifications leave frame and heap as they start.                      *)
(***************************************************************************)
Threads == {1, 2}
MaxRequests == 3

Idle ==
    [ op |-> "idle", pc |-> "idle",
      tx |-> <<>>,                       \* new_transactions: the posted values
      last_block |-> <<>>, last_id |-> 0,  \* mine: last_block and its list
      proof |-> 0, previous_hash |-> None,
      block |-> <<>>, block_id |-> 0,    \* new_block: block and its list
      order |-> <<>>, max_length |-> 0,  \* resolve_conflicts
      new_chain |-> <<>> ]

\* the lists after Blockchain(): one per block, and the one of the pool
HeapOf(ch) ==
    [ pool      |-> Len(ch) + 1,
      blocks    |-> [i \in 1..Len(ch) |-> i],
      allocated |-> Len(ch) + 1,
      appended  |-> 0,        \* how many transactions new_transaction took
      requests  |-> 0 ]       \* how many requests were received

(***************************************************************************)
(* The initial state: Blockchain() at module import of server.py; every    *)
(* peer is a fresh node of the same program.                               *)
(***************************************************************************)
Init ==
    /\ chain = Blockchain(time(<<>>)).chain
    /\ current_transactions = Blockchain(time(<<>>)).current_transactions
    /\ nodes = {}
    /\ net = [h \in Hosts |-> full_chain(Blockchain(time(<<>>)).chain)]
    /\ last = [op |-> "Blockchain", ret |-> "None"]
    /\ frame = [t \in Threads |-> Idle]
    /\ heap = HeapOf(chain)

(***************************************************************************)
(* Calls of the methods of Blockchain.                                     *)
(***************************************************************************)
NewTransaction ==
    /\ Len(current_transactions) < MaxPool
    /\ \E tx \in Transactions :
          LET r == new_transaction(chain, current_transactions,
                                   tx.sender, tx.recipient, tx.amount)
          IN  /\ current_transactions' = r.current_transactions
              /\ last' = [op |-> "new_transaction", ret |-> r.ret]
    /\ UNCHANGED <<chain, nodes, net, frame, heap>>

NewBlock ==
    /\ Len(chain) < MaxChain
    /\ \E proof \in ProofArgs(chain), previous_hash \in PreviousHashArgs :
          LET r == new_block(chain, current_transactions, proof,
                             previous_hash, time(chain))
          IN  /\ chain' = r.chain
              /\ current_transactions' = r.current_transactions
              /\ last' = [op |-> "new_block", ret |-> r.ret,
                          previous_hash |-> previous_hash]
    /\ UNCHANGED <<nodes, net, frame, heap>>

ResolveConflicts ==
    /\ \E order \in Orders(nodes) :
          LET r == resolve_conflicts(chain, net, order)
          IN  /\ chain' = r.chain
              /\ last' = [op |-> "resolve_conflicts", ret |-> r.ret,
                          order |-> order]
    /\ UNCHANGED <<current_transactions, nodes, net, frame, heap>>

\* new_transaction on an empty pool
FirstTransaction == current_transactions = <<>> /\ NewTransaction

RegisterNode ==
    /\ \E address \in Addresses :
          /\ nodes' = register_node(nodes, address)
          /\ last' = [op |-> "register_node", ret |-> "None"]
    /\ UNCHANGED <<chain, current_transactions, net, frame, heap>>

ValidChain ==
    /\ \E c \in ChainInputs \cup {chain} :
          last' = [op |-> "valid_chain", ret |-> valid_chain(c), arg |-> c]
    /\ UNCHANGED <<chain, current_transactions, nodes, net, frame, heap>>

ProofOfWork ==
    /\ \E last_proof \in 0..MaxLastProof :
          last' = [op |-> "proof_of_work", ret |-> proof_of_work(last_proof),
                   arg |-> last_proof]
    /\ UNCHANGED <<chain, current_transactions, nodes, net, frame, heap>>

(***************************************************************************)
(* The handlers of server.py.                                              *)
(***************************************************************************)
\* GET /mine
Mine ==
    /\ Len(chain) < MaxChain
    /\ proof_of_work(Last(chain).proof) # Diverges
    /\ LET r == mine(chain, current_transactions, time(chain))
       IN  /\ chain' = r.chain
           /\ current_transactions' = r.current_transactions
           /\ last' = [op |-> "mine", ret |-> r.ret]
    /\ UNCHANGED <<nodes, net, frame, heap>>

\* POST /transactions/new: complete says whether all of sender, recipient
\* and amount are in the posted values
NewTransactions ==
    /\ Len(current_transactions) < MaxPosted
    /\ \E tx \in Transactions, complete \in BOOLEAN :
          IF ~complete
          THEN /\ last' = [op |-> "new_transactions", ret |-> 400]
               /\ UNCHANGED current_transactions
          ELSE LET r == new_transaction(chain, current_transactions,
                                        tx.sender, tx.recipient, tx.amount)
               IN  /\ current_transactions' = r.current_transactions
                   /\ last' = [op |-> "new_transactions", ret |-> r.ret]
    /\ UNCHANGED <<chain, nodes, net, frame, heap>>

\* GET /chain
FullChain ==
    /\ last' = [op |-> "full_chain", ret |-> full_chain(chain)]
    /\ UNCHANGED <<chain, current_transactions, nodes, net, frame, heap>>

RECURSIVE register_all(_, _)
\* for node in nodes: blockchain.register_node(node)
register_all(ns, addresses) ==
    IF addresses = <<>> THEN ns
    ELSE register_all(register_node(ns, Head(addresses)), Tail(addresses))

\* POST /nodes/register: the posted list, or no 'nodes' key at all
RegisterNodes ==
    /\ \/ /\ last' = [op |-> "register_nodes", ret |-> 400]
          /\ UNCHANGED nodes
       \/ \E addresses \in {<<>>} \cup {<<a>> : a \in Addresses}
                            \cup {<<a, b>> : a, b \in Addresses} :
             /\ nodes' = register_all(nodes, addresses)
             /\ last' = [op |-> "register_nodes", ret |-> 200]
    /\ UNCHANGED <<chain, current_transactions, net, frame, heap>>

\* GET /node/resolve
Consensus == ResolveConflicts

(***************************************************************************)
(* The peers change what they answer.                                      *)
(***************************************************************************)
PeerChange ==
    /\ \E h \in Hosts, r \in HonestResponses :
          /\ net[h] # r
          /\ net' = [net EXCEPT ![h] = r]
    /\ last' = [op |-> "peer", ret |-> "None"]
    /\ UNCHANGED <<chain, current_transactions, nodes, frame, heap>>

(***************************************************************************)
(* The threaded server: one action per statement that reads or writes the  *)
(* shared Blockchain object, taken by the thread that is at it.            *)
(* Statements that touch only locals are taken with the one before them.   *)
(***************************************************************************)
\* list.append(tx) on the list with identity id, as seen by a holder of
\* the list with identity holder
AppendIn(holder, id, txs, tx) == IF holder = id THEN Append(txs, tx) ELSE txs

\* the locals of every thread after list.append(tx) on the list id
FramesAfterAppend(id, tx) ==
    [u \in Threads |->
        [frame[u] EXCEPT
            !.block = IF @ # <<>> /\ frame[u].block_id = id
                      THEN <<[@[1] EXCEPT !.transactions = Append(@, tx)]>>
                      ELSE @,
            !.last_block = IF @ # <<>> /\ frame[u].last_id = id
                           THEN <<[@[1] EXCEPT !.transactions = Append(@, tx)]>>
                           ELSE @]]

\* a request arrives and a thread starts its handler
ReceiveMine ==
    \E t \in Threads :
        /\ frame[t].op = "idle"
        /\ heap.requests < MaxRequests
        /\ frame' = [frame EXCEPT ![t] =
                        [Idle EXCEPT !.op = "mine", !.pc = "m_last_block"]]
        /\ heap' = [heap EXCEPT !.requests = @ + 1]
        /\ UNCHANGED <<chain, current_transactions, nodes, net, last>>

\* server.py new_transactions() up to the call of new_transaction
ReceiveNewTransactions ==
    \E t \in Threads, tx \in Transactions, complete \in BOOLEAN :
        /\ frame[t].op = "idle"
        /\ heap.requests < MaxRequests
        /\ heap' = [heap EXCEPT !.requests = @ + 1]
        /\ IF ~complete
           THEN /\ last' = [op |-> "new_transactions", ret |-> 400]
                /\ UNCHANGED frame
           ELSE /\ frame' = [frame EXCEPT ![t] =
                               [Idle EXCEPT !.op = "new_transactions",
                                            !.pc = "t_append",
                                            !.tx = <<tx>>]]
                /\ UNCHANGED last
        /\ UNCHANGED <<chain, current_transactions, nodes, net>>

\* for node in neighbours: the order is fixed when the loop starts
ReceiveConsensus ==
    \E t \in Threads, order \in Orders(nodes) :
        /\ frame[t].op = "idle"
        /\ heap.requests < MaxRequests
        /\ frame' = [frame EXCEPT ![t] =
                        [Idle EXCEPT !.op = "consensus", !.pc = "r_max_length",
                                     !.order = order]]
        /\ heap' = [heap EXCEPT !.requests = @ + 1]
        /\ UNCHANGED <<chain, current_transactions, nodes, net, last>>

\* mine(): last_block = blockchain.last_block, and the proof searched from
\* its proof; a search that does not end leaves the thread here
MineLastBlock ==
    \E t \in Threads :
        /\ frame[t].pc = "m_last_block"
        /\ proof_of_work(Last(chain).proof) # Diverges
        /\ frame' = [frame EXCEPT ![t] =
                        [@ EXCEPT !.last_block = <<Last(chain)>>,
                                  !.last_id = heap.blocks[Len(chain)],
                                  !.proof = proof_of_work(Last(chain).proof),
                                  !.pc = "t_append"]]
        /\ UNCHANGED <<chain, current_transactions, nodes, net, last, heap>>

\* new_transaction: self.current_transactions.append({...})
NewTransactionAppend ==
    \E t \in Threads :
        /\ frame[t].pc = "t_append"
        /\ LET posted == IF frame[t].op = "mine"
                         THEN [sender |-> "0", recipient |-> node_identifier,
                               amount |-> 1]
                         ELSE frame[t].tx[1]
               tx == Last(new_transaction(chain, current_transactions,
                                          posted.sender, posted.recipient,
                                          posted.amount).current_transactions)
               id == heap.pool
           IN  /\ current_transactions' =
                      AppendIn(heap.pool, id, current_transactions, tx)
               /\ chain' = [i \in 1..Len(chain) |->
                               [chain[i] EXCEPT !.transactions =
                                   AppendIn(heap.blocks[i], id, @, tx)]]
               /\ frame' = [FramesAfterAppend(id, tx) EXCEPT
                               ![t] = [@ EXCEPT !.pc = "t_return"]]
        /\ heap' = [heap EXCEPT !.appended = @ + 1]
        /\ UNCHANGED <<nodes, net, last>>

\* new_transaction: return self.last_block['index'] + 1; mine() drops the
\* value and goes on, new_transactions() answers with it
NewTransactionReturn ==
    \E t \in Threads :
        /\ frame[t].pc = "t_return"
        /\ LET r == new_transaction(chain, current_transactions, "", "", 0)
           IN  IF frame[t].op = "mine"
               THEN /\ frame' = [frame EXCEPT ![t] = [@ EXCEPT !.pc = "m_hash"]]
                    /\ UNCHANGED last
               ELSE /\ frame' = [frame EXCEPT ![t] = Idle]
                    /\ last' = [op |-> "new_transactions", ret |-> r.ret]
        /\ UNCHANGED <<chain, current_transactions, nodes, net, heap>>

\* mine(): previous_hash = blockchain.hash(last_block)
MineHash ==
    \E t \in Threads :
        /\ frame[t].pc = "m_hash"
        /\ frame' = [frame EXCEPT ![t] =
                        [@ EXCEPT !.previous_hash = hash(frame[t].last_block[1]),
                                  !.pc = "b_block"]]
        /\ UNCHANGED <<chain, current_transactions, nodes, net, last, heap>>

\* new_block: block = {...}; its 'transactions' is the list of the pool
NewBlockBlock ==
    \E t \in Threads :
        /\ frame[t].pc = "b_block"
        /\ frame' = [frame EXCEPT ![t] =
                        [@ EXCEPT !.block =
                                      <<new_block(chain, current_transactions,
                                                  frame[t].proof,
                                                  frame[t].previous_hash,
                                                  time(chain)).ret>>,
                                  !.block_id = heap.pool,
                                  !.pc = "b_reset"]]
        /\ UNCHANGED <<chain, current_transactions, nodes, net, last, heap>>

\* new_block: self.current_transactions = [], a new list
NewBlockReset ==
    \E t \in Threads :
        /\ frame[t].pc = "b_reset"
        /\ current_transactions' = <<>>
        /\ heap' = [heap EXCEPT !.pool = heap.allocated + 1,
                                !.allocated = @ + 1]
        /\ frame' = [frame EXCEPT ![t] = [@ EXCEPT !.pc = "b_append"]]
        /\ UNCHANGED <<chain, nodes, net, last>>

\* new_block: self.chain.append(block); return block; mine() answers
NewBlockAppend ==
    \E t \in Threads :
        /\ frame[t].pc = "b_append"
        /\ chain' = Append(chain, frame[t].block[1])
        /\ heap' = [heap EXCEPT !.blocks = Append(@, frame[t].block_id)]
        /\ frame' = [frame EXCEPT ![t] = Idle]
        /\ last' = [op |-> "mine", ret |-> frame[t].block[1]]
        /\ UNCHANGED <<current_transactions, nodes, net>>

\* resolve_conflicts: max_length = len(self.chain)
ResolveMaxLength ==
    \E t \in Threads :
        /\ frame[t].pc = "r_max_length"
        /\ frame' = [frame EXCEPT ![t] =
                        [@ EXCEPT !.max_length = Len(chain), !.pc = "r_fetch"]]
        /\ UNCHANGED <<chain, current_transactions, nodes, net, last, heap>>

\* resolve_conflicts: the for loop; an exception ends the request
ResolveFetch ==
    \E t \in Threads :
        /\ frame[t].pc = "r_fetch"
        /\ LET r == resolve_loop(net, frame[t].order, 1, frame[t].max_length, <<>>)
           IN  IF r.exc # ""
               THEN /\ frame' = [frame EXCEPT ![t] = Idle]
                    /\ last' = [op |-> "resolve_conflicts", ret |-> r.exc,
                                order |-> frame[t].order]
               ELSE /\ frame' = [frame EXCEPT ![t] =
                                   [@ EXCEPT !.new_chain = r.new_chain,
                                             !.pc = "r_replace"]]
                    /\ UNCHANGED last
        /\ UNCHANGED <<chain, current_transactions, nodes, net, heap>>

\* resolve_conflicts: if new_chain: self.chain = new_chain, whose lists are
\* new ones; consensus() answers
ResolveReplace ==
    \E t \in Threads :
        /\ frame[t].pc = "r_replace"
        /\ LET new_chain == frame[t].new_chain
           IN  IF Len(new_chain) = 1 /\ Len(new_chain[1]) > 0
               THEN /\ chain' = new_chain[1]
                    /\ heap' = [heap EXCEPT
                                   !.blocks = [i \in 1..Len(new_chain[1]) |->
                                                  heap.allocated + i],
                                   !.allocated = @ + Len(new_chain[1])]
                    /\ last' = [op |-> "resolve_conflicts", ret |-> "True",
                                order |-> frame[t].order]
               ELSE /\ last' = [op |-> "resolve_conflicts", ret |-> "False",
                                order |-> frame[t].order]
                    /\ UNCHANGED <<chain, heap>>
        /\ frame' = [frame EXCEPT ![t] = Idle]
        /\ UNCHANGED <<current_transactions, nodes, net>>

(***************************************************************************)
(* Specifications.                                                         *)
(***************************************************************************)
\* the server: its handlers, one request at a time, and its peers
Next ==
    \/ Mine
    \/ NewTransactions
    \/ RegisterNodes
    \/ Consensus
    \/ FullChain
    \/ PeerChange

Spec == Init /\ [][Next]_vars

\* the pool and the chain of a Blockchain object used directly
LedgerNext ==
    \/ NewTransaction
    \/ NewBlock

SpecLedger == Init /\ [][LedgerNext]_vars

\* resolve_conflicts against every bounded set of peer responses
InitResolve ==
    /\ chain \in {HonestChain(n) : n \in 1..MaxChain}
    /\ current_transactions = <<[sender |-> "a", recipient |-> "b", amount |-> 1]>>
    /\ nodes \in SUBSET NetLocs
    /\ net \in [Hosts -> Responses]
    /\ last = [op |-> "Blockchain", ret |-> "None"]
    /\ frame = [t \in Threads |-> Idle]
    /\ heap = HeapOf(chain)

SpecResolve == InitResolve /\ [][ResolveConflicts]_vars

\* the server with both peers registered: p1 answers anything at all, p2
\* runs this program and has mined nothing or ahead of this node
InitNode ==
    /\ chain = Blockchain(time(<<>>)).chain
    /\ current_transactions = Blockchain(time(<<>>)).current_transactions
    /\ nodes = Hosts
    /\ net \in {f \in [Hosts -> ForgedResponses] :
                  f["p2"] \in {full_chain(HonestChain(n)) : n \in {1, MaxPeerChain}}}
    /\ last = [op |-> "Blockchain", ret |-> "None"]
    /\ frame = [t \in Threads |-> Idle]
    /\ heap = HeapOf(chain)

NodeNext ==
    \/ NewTransactions
    \/ Mine
    \/ Consensus

SpecNode == InitNode /\ [][NodeNext]_vars

\* a Blockchain object used directly, one call at a time, with at most one
\* transaction pending: p1 gives one of the sample answers, p2 has mined
\* nothing
InitChain ==
    /\ chain = Blockchain(time(<<>>)).chain
    /\ current_transactions = Blockchain(time(<<>>)).current_transactions
    /\ nodes = {}
    /\ net \in {[h \in Hosts |-> IF h = "p1" THEN r
                                  ELSE full_chain(HonestChain(1))] :
                  r \in SampleResponses}
    /\ last = [op |-> "Blockchain", ret |-> "None"]
    /\ frame = [t \in Threads |-> Idle]
    /\ heap = HeapOf(chain)

ChainNext ==
    \/ FirstTransaction
    \/ NewBlock
    \/ RegisterNode
    \/ ResolveConflicts

SpecChain == InitChain /\ [][ChainNext]_vars

\* the threaded server: up to MaxRequests requests, served by the threads
\* of Threads a statement at a time; p1 runs this program or fails, p2 has
\* mined nothing
InitThreads ==
    /\ chain = Blockchain(time(<<>>)).chain
    /\ current_transactions = Blockchain(time(<<>>)).current_transactions
    /\ nodes = Hosts
    /\ net \in {[h \in Hosts |-> IF h = "p1" THEN r
                                  ELSE full_chain(HonestChain(1))] :
                  r \in HonestResponses}
    /\ last = [op |-> "Blockchain", ret |-> "None"]
    /\ frame = [t \in Threads |-> Idle]
    /\ heap = HeapOf(chain)

ThreadsNext ==
    \/ ReceiveMine
    \/ ReceiveNewTransactions
    \/ ReceiveConsensus
    \/ MineLastBlock
    \/ NewTransactionAppend
    \/ NewTransactionReturn
    \/ MineHash
    \/ NewBlockBlock
    \/ NewBlockReset
    \/ NewBlockAppend
    \/ ResolveMaxLength
    \/ ResolveFetch
    \/ ResolveReplace

SpecThreads == InitThreads /\ [][ThreadsNext]_vars

\* the pure methods applied to bounded inputs
PureNext ==
    \/ ValidChain
    \/ ProofOfWork

SpecPure == Init /\ [][PureNext]_vars

(***************************************************************************)
(* The vocabulary of the claims.                                           *)
(***************************************************************************)
\* the contract of the validator: every adjacent pair is linked by hash and
\* by proof
ProperlyLinked(c) ==
    \A i \in 2..Len(c) :
        /\ PyEq(c[i].previous_hash, hash(c[i - 1]))
        /\ valid_proof(c[i - 1].proof, c[i].proof)

\* a peer answer carrying a chain of its reported length
Reports(r) ==
    r.reachable /\ r.status = HTTP_OK /\ r.wellformed /\ r.length = Len(r.chain)

\* a peer answer with a properly linked chain strictly longer than ch
LongerValid(r, ch) ==
    Reports(r) /\ r.length > Len(ch) /\ ProperlyLinked(r.chain)

\* a fetch that failed: unreachable, non-success status or missing fields
FetchFailed(r) == ~r.reachable \/ r.status # HTTP_OK \/ ~r.wellformed

Returned(r) == r \in {"True", "False"}

(***************************************************************************)
(* C1.  For every chain of length >= 1, valid_chain returns true exactly   *)
(* when every adjacent pair is linked by previous_hash and by a valid      *)
(* proof.  Stated of the code, this fails.                                 *)
(***************************************************************************)
C1_ValidChainIffLinked ==
    (last.op = "valid_chain" /\ Len(last.arg) >= 1)
        => (last.ret = "True" <=> ProperlyLinked(last.arg))

(***************************************************************************)
(* C2.  After the mining workflow has appended a block to the node's       *)
(* chain, valid_chain of that chain returns true.  Stated of the code,     *)
(* this fails.                                                             *)
(***************************************************************************)
C2_MinedChainValidates ==
    last.op = "mine" => valid_chain(chain) = "True"

(***************************************************************************)
(* C3.  If every registered peer is a host that answers with a chain and   *)
(* one of them reports a properly linked chain strictly longer than the    *)
(* local one, resolve_conflicts returns true and the local chain becomes   *)
(* such a peer chain.  Stated of the code, this fails.                     *)
(***************************************************************************)
C3_AdoptsLongerValid ==
    [][ ( /\ last'.op = "resolve_conflicts"
          /\ nodes \subseteq Hosts
          /\ \A n \in nodes : Reports(Fetch(net, n)) /\ Fetch(net, n).length > 0
          /\ \E n \in nodes : LongerValid(Fetch(net, n), chain) )
        => ( /\ last'.ret = "True"
             /\ \E n \in nodes : /\ LongerValid(Fetch(net, n), chain)
                                 /\ chain' = Fetch(net, n).chain ) ]_vars

(***************************************************************************)
(* C4.  If the registered peers are hosts and none of them reports a       *)
(* properly linked chain strictly longer than the local one,               *)
(* resolve_conflicts returns false and leaves the chain, the pool and the  *)
(* peer set as they were.  Stated of the code, this fails: the call may    *)
(* raise instead of returning.                                             *)
(***************************************************************************)
C4_NoCandidateReturnsFalse ==
    [][ ( /\ last'.op = "resolve_conflicts"
          /\ nodes \subseteq Hosts
          /\ ~\E n \in nodes : LongerValid(Fetch(net, n), chain) )
        => ( /\ last'.ret = "False"
             /\ UNCHANGED <<chain, current_transactions, nodes>> ) ]_vars

(***************************************************************************)
(* C5.  resolve_conflicts never shortens the local chain, whatever the     *)
(* peers answer (also when the reported length is not the number of        *)
(* blocks reported).                                                       *)
(***************************************************************************)
C5_NeverShortens ==
    [][ last'.op = "resolve_conflicts" => Len(chain') >= Len(chain) ]_vars

\* a call was made while a peer reported fewer blocks than the local chain
\* under a length greater than the local one
C5_Witness ==
    /\ last.op = "resolve_conflicts"
    /\ Returned(last.ret)
    /\ \E n \in nodes :
          LET r == Fetch(net, n)
          IN  /\ r.reachable /\ r.status = HTTP_OK /\ r.wellformed
              /\ r.length > Len(chain)
              /\ Len(r.chain) < Len(chain)
              /\ Len(r.chain) >= 2
              /\ ProperlyLinked(r.chain)

(***************************************************************************)
(* C6.  A peer host whose fetch fails is skipped: the call still returns,  *)
(* and a properly linked longer chain reported by another peer is still    *)
(* adopted.  Stated of the code, this fails.                               *)
(***************************************************************************)
C6_FailedFetchSkipped ==
    [][ ( /\ last'.op = "resolve_conflicts"
          /\ nodes \subseteq Hosts
          /\ \E n \in nodes : FetchFailed(Fetch(net, n))
          /\ \A n \in nodes : FetchFailed(Fetch(net, n)) \/ Reports(Fetch(net, n)) )
        => ( /\ Returned(last'.ret)
             /\ (\E n \in nodes : LongerValid(Fetch(net, n), chain))
                    => last'.ret = "True" ) ]_vars

(***************************************************************************)
(* C7.  valid_chain is true of every properly linked chain, and false of   *)
(* the chain with the proof, previous_hash or transactions of any one      *)
(* block changed.  Stated of the code, this fails.                         *)
(***************************************************************************)
C7_TamperDetected ==
    (last.op = "valid_chain" /\ Len(last.arg) >= 1 /\ ProperlyLinked(last.arg))
        => /\ last.ret = "True"
           /\ \A i \in 1..Len(last.arg), f \in Fields :
                  valid_chain(Tamper(last.arg, i, f)) = "False"

(***************************************************************************)
(* C8.  valid_chain of the genesis-only chain returns true.  Stated of     *)
(* the code, this fails.                                                   *)
(***************************************************************************)
C8_GenesisValid ==
    (last.op = "valid_chain" /\ last.arg = Blockchain(time(<<>>)).chain)
        => last.ret = "True"

(***************************************************************************)
(* C9.  new_transaction appends its transaction to the end of the pool     *)
(* and leaves the chain alone; new_block appends one block whose           *)
(* transactions are the pool as it stood, in order, empties the pool and   *)
(* leaves the earlier blocks alone.                                        *)
(***************************************************************************)
C9_BlockTakesPool ==
    [][ /\ last'.op = "new_transaction"
            => /\ chain' = chain
               /\ Len(current_transactions') = Len(current_transactions) + 1
               /\ SubSeq(current_transactions', 1, Len(current_transactions))
                      = current_transactions
               /\ Last(current_transactions') \in Transactions
        /\ last'.op = "new_block"
            => /\ Len(chain') = Len(chain) + 1
               /\ SubSeq(chain', 1, Len(chain)) = chain
               /\ Last(chain').transactions = current_transactions
               /\ last'.ret = Last(chain')
               /\ current_transactions' = <<>> ]_vars

\* a block took two transactions in order; a transaction added later went
\* to the next block only
C9_Witness ==
    /\ last.op = "new_block"
    /\ Len(chain) = 3
    /\ chain[2].transactions =
           << [sender |-> "a", recipient |-> "b", amount |-> 1],
              [sender |-> "b", recipient |-> "a", amount |-> 2] >>
    /\ chain[3].transactions = << [sender |-> "b", recipient |-> "a", amount |-> 2] >>
    /\ current_transactions = <<>>

(***************************************************************************)
(* C10.  For every last_proof with a satisfying nonce within the bound,    *)
(* proof_of_work returns a nonce that satisfies valid_proof, and no        *)
(* smaller nonce does.                                                     *)
(***************************************************************************)
C10_MinimalProof ==
    ( /\ last.op = "proof_of_work"
      /\ \E q \in 0..MaxNonce : valid_proof(last.arg, q) )
        => /\ last.ret \in 0..MaxNonce
           /\ valid_proof(last.arg, last.ret)
           /\ \A q \in 0..(last.ret - 1) : ~valid_proof(last.arg, q)

\* the search from the genesis proof passed over nonces that fail
C10_Witness ==
    /\ last.op = "proof_of_work"
    /\ last.arg = GenesisProof
    /\ last.ret > 0
    /\ valid_proof(last.arg, last.ret)

(***************************************************************************)
(* C11.  After any sequence of posted transactions, mined blocks and       *)
(* resolve_conflicts calls, whatever the peers answer, every block after   *)
(* the first is linked to the block before it by previous_hash and by a    *)
(* valid proof; resolve_conflicts installs no chain that breaks this.      *)
(***************************************************************************)
C11_ChainStaysLinked == ProperlyLinked(chain)

\* after a block was mined, resolve_conflicts returned while a peer offered
\* a longer chain with a broken link
C11_Witness ==
    /\ last.op = "resolve_conflicts"
    /\ Returned(last.ret)
    /\ Len(chain) >= 2
    /\ \E n \in nodes :
          LET r == Fetch(net, n)
          IN  /\ Reports(r)
              /\ r.length > Len(chain)
              /\ ~ProperlyLinked(r.chain)

(***************************************************************************)
(* C12.  With every registered peer a host that answers with its chain,    *)
(* and the answers no longer changing: once resolve_conflicts has          *)
(* returned, no peer holds a properly linked chain strictly longer than    *)
(* the local one, and every further call returns false and leaves the      *)
(* chain as it is.  Stated of the code, this fails.                        *)
(***************************************************************************)
C12_Converged ==
    ( /\ last.op = "resolve_conflicts"
      /\ Returned(last.ret)
      /\ nodes \subseteq Hosts
      /\ \A n \in nodes : Reports(Fetch(net, n)) /\ Fetch(net, n).length > 0 )
        => /\ ~\E n \in nodes : LongerValid(Fetch(net, n), chain)
           /\ \A order \in Orders(nodes) :
                  LET r == resolve_conflicts(chain, net, order)
                  IN  r.ret = "False" /\ r.chain = chain

(***************************************************************************)
(* C13.  The value returned for a posted transaction is the index of the   *)
(* block that will contain it: the transaction stays in the pool while     *)
(* the chain does not change, and when the next change of the chain is a   *)
(* new block, that block contains the pool and its index is the index of   *)
(* the tip plus one, the value returned for every pending transaction.     *)
(***************************************************************************)
C13_PromisedIndex ==
    [][ /\ (last'.op = "new_transactions" /\ last'.ret # 400)
            => /\ last'.ret = Last(chain).index + 1
               /\ chain' = chain
               /\ Len(current_transactions') = Len(current_transactions) + 1
        /\ last'.op = "mine"
            => /\ Len(chain') = Len(chain) + 1
               /\ Last(chain').index = Last(chain).index + 1
               /\ SubSeq(Last(chain').transactions, 1, Len(current_transactions))
                      = current_transactions
        /\ chain' = chain
            => SubSeq(current_transactions', 1, Len(current_transactions))
                   = current_transactions ]_vars

\* a transaction posted after the first mined block, for which 3 was
\* returned, is in block 3 with the reward
C13_Witness ==
    /\ last.op = "mine"
    /\ Len(chain) = 3
    /\ last.ret.index = 3
    /\ Len(chain[2].transactions) = 1
    /\ Len(last.ret.transactions) = 2

(***************************************************************************)
(* C14.  With requests served a statement at a time by several threads:    *)
(* no step other than a replacement by resolve_conflicts changes a block   *)
(* that is in the chain, and whenever no request is in progress every      *)
(* transaction new_transaction took is in the pool or in exactly one       *)
(* block, so the pool and the blocks together hold as many transactions    *)
(* as were taken.  Stated of the code, this fails.                         *)
(***************************************************************************)
RECURSIVE Held(_)
\* how many transactions the blocks of c hold
Held(c) == IF c = <<>> THEN 0 ELSE Len(Head(c).transactions) + Held(Tail(c))

C14_NoneLostNoneTwice ==
    [][ /\ (\A t \in Threads : frame'[t].op = "idle")
            => heap'.appended = Len(current_transactions') + Held(chain')
        /\ (~\E t \in Threads : frame[t].pc = "r_replace" /\ frame'[t].pc = "idle")
            => /\ Len(chain') >= Len(chain)
               /\ SubSeq(chain', 1, Len(chain)) = chain ]_vars

(***************************************************************************)
(* C15.  With requests served a statement at a time by several threads     *)
(* (two mine requests, or mine and resolve_conflicts): in every state,     *)
(* every block after the first has as previous_hash the hash of the block  *)
(* before it, and the block at position k has index k.  Stated of the      *)
(* code, this fails.                                                       *)
(***************************************************************************)
C15_AppendOnItsTip ==
    \A i \in 2..Len(chain) :
        /\ PyEq(chain[i].previous_hash, hash(chain[i - 1]))
        /\ chain[i].index = i

(***************************************************************************)
(* C16.  The outcome of resolve_conflicts does not depend on the order in  *)
(* which the peers are visited: for the same chain and the same answers,   *)
(* every order leaves the same chain, and the call returns in every order  *)
(* or in none, with the same value.                                        *)
(***************************************************************************)
C16_OrderIndependent ==
    [][ last'.op = "resolve_conflicts"
        => \A order \in Orders(nodes) :
              LET r == resolve_conflicts(chain, net, order)
              IN  /\ r.chain = chain'
                  /\ Returned(r.ret) <=> Returned(last'.ret)
                  /\ Returned(r.ret) => r.ret = last'.ret ]_vars

\* a call returned with two peers registered that report different chains
\* under the same length, greater than the local one
C16_Witness ==
    /\ last.op = "resolve_conflicts"
    /\ Returned(last.ret)
    /\ nodes = Hosts
    /\ \A n \in nodes : Fetch(net, n).wellformed /\ Fetch(net, n).length > Len(chain)
    /\ \E n, m \in nodes :
          /\ Fetch(net, n).length = Fetch(net, m).length
          /\ Fetch(net, n).chain # Fetch(net, m).chain
          /\ ProperlyLinked(Fetch(net, n).chain)
          /\ ProperlyLinked(Fetch(net, m).chain)
          /\ Len(Fetch(net, n).chain) >= 2
          /\ Len(Fetch(net, m).chain) >= 2

(***************************************************************************)
(* C17.  After construction the chain is never empty, whatever the calls   *)
(* of new_transaction, new_block, register_node and resolve_conflicts and  *)
(* whatever the peers answer, an empty chain under a great length          *)
(* included; so last_block is always defined.                              *)
(***************************************************************************)
C17_NeverEmpty == Len(chain) >= 1

\* resolve_conflicts was called while a registered peer reported the empty
\* chain under a length greater than the local one
C17_Witness ==
    /\ last.op = "resolve_conflicts"
    /\ \E n \in nodes :
          /\ Fetch(net, n).wellformed
          /\ Fetch(net, n).chain = <<>>
          /\ Fetch(net, n).length > Len(chain)

(***************************************************************************)
(* C18.  In every state reached by calls of new_transaction, new_block and *)
(* resolve_conflicts, the block at position k of the chain, counted from   *)
(* 1, has index k.                                                         *)
(***************************************************************************)
C18_IndexIsPosition == \A k \in 1..Len(chain) : chain[k].index = k

\* after a block was appended, resolve_conflicts returned while a peer
\* reported, under a greater length, a chain with an index off
C18_Witness ==
    /\ last.op = "resolve_conflicts"
    /\ Returned(last.ret)
    /\ Len(chain) >= 2
    /\ \E n \in nodes :
          LET r == Fetch(net, n)
          IN  /\ r.wellformed
              /\ r.length > Len(chain)
              /\ \E k \in 1..Len(r.chain) : r.chain[k].index # k

(***************************************************************************)
(* C19.  The chain is append-only: new_transaction, register_node and a    *)
(* resolve_conflicts that does not return true leave it as it is,          *)
(* new_block adds one block at its end and leaves the blocks before it as  *)
(* they are, and a resolve_conflicts that returns true puts the whole      *)
(* chain of a registered peer in its place.                                *)
(***************************************************************************)
C19_AppendOnly ==
    [][ /\ last'.op \in {"new_transaction", "register_node"} => chain' = chain
        /\ (last'.op = "resolve_conflicts" /\ last'.ret # "True")
               => chain' = chain
        /\ last'.op = "new_block"
               => /\ Len(chain') = Len(chain) + 1
                  /\ SubSeq(chain', 1, Len(chain)) = chain
        /\ (last'.op = "resolve_conflicts" /\ last'.ret = "True")
               => \E n \in nodes : /\ Fetch(net, n).wellformed
                                   /\ chain' = Fetch(net, n).chain ]_vars

\* a chain grown to three blocks was kept by a resolve_conflicts that
\* returned false while a peer reported a longer, properly linked one
C19_Witness ==
    /\ last.op = "resolve_conflicts"
    /\ last.ret = "False"
    /\ Len(chain) = 3
    /\ \E n \in nodes : LongerValid(Fetch(net, n), chain)

(***************************************************************************)
(* C20.  new_block stores as previous_hash the value supplied, whenever    *)
(* one is supplied (0 and the empty string included), and the hash of the  *)
(* block that was the tip before the call only when none is supplied.      *)
(* Stated of the code, this fails.                                         *)
(***************************************************************************)
C20_StoresSuppliedHash ==
    [][ last'.op = "new_block"
        => IF last'.previous_hash = None
           THEN PyEq(Last(chain').previous_hash, hash(Last(chain)))
           ELSE PyEq(Last(chain').previous_hash, last'.previous_hash) ]_vars

====
